---------------------------- MODULE Spec2Model ----------------------------
(***************************************************************************)
(* A model of pytics' profiler (src/src/pytics/profiler.py): the two       *)
(* public entry points profile() and compare(), the JSON report model      *)
(* built by _prepare_json_data, and the helpers they call.                 *)
(*                                                                         *)
(* Two levels of detail share the variables:                               *)
(*  - Spec models the control flow of both entry points over the SHAPE of  *)
(*    the data (row and column counts around MAX_ROWS / MAX_COLS);         *)
(*  - the value-level specifications run the same code over small frames   *)
(*    whose cells are explicit.                                            *)
(***************************************************************************)
EXTENDS Integers, Sequences, FiniteSets, TLC

VARIABLES
    entry,      \* the entry point called: "profile" or "compare"
    pc,         \* position in the entry point's code
    err,        \* the exception that ended the call, "none" while there is none
    source,     \* profile's df argument: a frame, or a path by its extension
    fmt,        \* profile's output_format
    shape1,     \* [rows, cols] of df (profile) or df1 (compare)
    shape2,     \* [rows, cols] of df2 (compare)
    hasTarget,  \* profile: target names a column of df
    ncommon,    \* compare: number of columns the two frames share
    outfile,    \* compare: output_file is given
    computed,   \* the computations carried out so far, by name
    effects,    \* the output side effects so far: "mkdir", "file"
    df,         \* value level: the frame profiled
    target,     \* profile's target: None or Some(name)
    include_sections,   \* None or Some(set of section names)
    exclude_sections,   \* None or Some(set of section names)
    col,        \* the column the loop over df.columns is at
    data,       \* the JSON report model _prepare_json_data is building
    context,    \* the template context profile builds for an HTML or PDF report
    df2,        \* compare's second frame (df is its first)
    n_bins,     \* compare's n_bins
    results,    \* the dict compare is building
    call,       \* 1 for the first call, 2 for its repetition on the same inputs
    prev,       \* the report model the first call returned
    clock       \* the wall clock datetime.now() reads

shapeVars == <<entry, pc, err, source, fmt, shape1, shape2, hasTarget, ncommon,
               outfile, computed, effects>>

\* What the shape level reads and the value level leaves alone.
shapeOnly == <<source, shape1, shape2, hasTarget, ncommon, outfile, computed, effects>>

valueIn == <<df, target, include_sections, exclude_sections>>

compareVars == <<df2, n_bins, results>>

valueVars == <<df, target, include_sections, exclude_sections, col, data,
               context, call, prev, clock, compareVars>>

vars == <<shapeVars, valueVars>>

-----------------------------------------------------------------------------
(* Constants of the program *)

MAX_ROWS == 1000000

MAX_COLS == 1000

(* Bounds of the model *)

\* Row and column counts are drawn within Slack of 0 and of the two limits.
Slack == 1

\* Frames of the value level have at most MaxRows rows.
MaxRows == 2

\* A section filter lists at most MaxFilter names.
MaxFilter == 1

\* The frames whose schemas compare reconciles have at most MaxCols columns.
MaxCols == 3

\* compare is called with n_bins in 1 .. MaxBins.
MaxBins == 2

\* The numbers of the columns whose histograms are compared are in 1 .. MaxValue.
MaxValue == 3

-----------------------------------------------------------------------------
(* The report model before anything is put in it, and the value level at rest *)

\* Optional values: None is the empty tuple, a given value x is <<x>>.
None == <<>>

Some(x) == <<x>>

\* A value of Python or numpy: its type t and, by kind k, the number num/den
\* ("rat"), the signed root sign(num) * sqrt(|num|/den) ("sqrt"), nan, inf, an
\* integer or a label num, a number printed with two decimals (num hundredths,
\* "fixed2"), or the score of one run of the mutual-information estimator
\* ("mi", num the noise it drew).
PyVal(t, k, num, den) == [t |-> t, k |-> k, num |-> num, den |-> den]

PyNone == PyVal("NoneType", "none", 0, 1)

PyInt(n) == PyVal("int", "int", n, 1)

NoData ==
    [generated_at |-> 0, rows |-> PyInt(0), columns |-> PyInt(0),
     n_vars |-> PyInt(0), n_obs |-> PyInt(0),
     variables |-> <<>>, correlations |-> None, missing_values |-> None,
     duplicates |-> None, target_analysis |-> None]

\* The template context before profile fills it. The memory estimates and the
\* rendered plots and tables are left out: only whether a plot is there is kept.
NoContext ==
    [overview |-> None, variables |-> <<>>, correlations_plot |-> FALSE,
     target_plot |-> FALSE, duplicate_samples |-> <<>>, counts |-> None]

NoResults ==
    [columns_only_in_df1 |-> <<>>, columns_only_in_df2 |-> <<>>,
     common_columns |-> <<>>, dtype_differences |-> <<>>,
     variable_comparison |-> <<>>]

CompareIdle ==
    /\ df2 = <<>>
    /\ n_bins = 0
    /\ results = NoResults

ValueIdle ==
    /\ CompareIdle
    /\ context = NoContext
    /\ df = <<>>
    /\ target = None
    /\ include_sections = None
    /\ exclude_sections = None
    /\ col = 0
    /\ data = NoData
    /\ call = 1
    /\ prev = NoData
    /\ clock = 0

-----------------------------------------------------------------------------
(* Shape level: the control flow of profile() and compare() *)

Min(a, b) == IF a <= b THEN a ELSE b

Near(limit) == (0 .. Slack) \cup ((limit - Slack) .. (limit + Slack))

Shapes == [rows : Near(MAX_ROWS), cols : Near(MAX_COLS)]

NoShape == [rows |-> 0, cols |-> 0]

\* Mutant of ExceedsLimits: the limits themselves are refused (>= for >).
ExceedsLimitsInclusive(sh) == sh.rows >= MAX_ROWS \/ sh.cols >= MAX_COLS

\* len(df) > MAX_ROWS, then len(df.columns) > MAX_COLS: profile's two tests.
ExceedsLimits(sh) == sh.rows > MAX_ROWS \/ sh.cols > MAX_COLS

\* The columns profile() analyses: every column but the target.
NProfiled(sh, tgt) == IF tgt /\ sh.cols > 0 THEN sh.cols - 1 ELSE sh.cols

\* distinct_count / total_count: Series.nunique() is a Python int and so is
\* len(series), so the quotient raises ZeroDivisionError on a frame without rows.
AnalyzeRaises(sh, n) == sh.rows = 0 /\ n > 0

InitProfile ==
    /\ entry = "profile"
    /\ source \in {"frame", "csv", "parquet", "other"}
    /\ fmt \in {"html", "pdf", "json"}
    /\ shape1 \in Shapes
    \* a path of another extension is never read: there is no frame
    /\ (source = "other" => shape1 = NoShape)
    /\ shape2 = NoShape
    /\ hasTarget \in BOOLEAN
    /\ (hasTarget => shape1.cols > 0)
    /\ ncommon = 0
    /\ outfile = FALSE

InitCompare ==
    /\ entry = "compare"
    /\ source = "frame"
    /\ fmt = "html"
    /\ shape1 \in Shapes
    /\ shape2 \in Shapes
    /\ hasTarget = FALSE
    /\ ncommon \in 0 .. Min(1, Min(shape1.cols, shape2.cols))
    /\ outfile \in BOOLEAN

Init ==
    /\ pc = "start"
    /\ err = "none"
    /\ computed = {}
    /\ effects = {}
    /\ (InitProfile \/ InitCompare)
    /\ ValueIdle

Raise(e) == pc' = "raised" /\ err' = e

\* profile, lines 437-444: a path is read by its extension.
ProfileLoad ==
    /\ entry = "profile" /\ pc = "start"
    /\ IF source = "other"
       THEN Raise("ValueError")
       ELSE pc' = "limits" /\ err' = err
    /\ UNCHANGED <<entry, source, fmt, shape1, shape2, hasTarget, ncommon,
                   outfile, computed, effects>>
    /\ UNCHANGED valueVars

\* profile, lines 446-450: the size limits.
ProfileCheckLimits ==
    /\ entry = "profile" /\ pc = "limits"
    /\ IF ExceedsLimits(shape1)
       THEN Raise("DataSizeError")
       ELSE pc' = "mkdir" /\ err' = err
    /\ UNCHANGED <<entry, source, fmt, shape1, shape2, hasTarget, ncommon,
                   outfile, computed, effects>>
    /\ UNCHANGED valueVars

\* profile, lines 452-454: the output directory.
ProfileMkdir ==
    /\ entry = "profile" /\ pc = "mkdir"
    /\ effects' = effects \cup {"mkdir"}
    /\ pc' = IF fmt = "json" THEN "json" ELSE "overview"
    /\ UNCHANGED <<entry, err, source, fmt, shape1, shape2, hasTarget, ncommon,
                   outfile, computed>>
    /\ UNCHANGED valueVars

\* profile, line 458: _prepare_json_data, which analyses every column first.
ProfileJson ==
    /\ entry = "profile" /\ pc = "json"
    /\ computed' = computed \cup {"json_data"}
    /\ IF AnalyzeRaises(shape1, NProfiled(shape1, hasTarget))
       THEN Raise("ZeroDivisionError")
       ELSE pc' = "write" /\ err' = err
    /\ UNCHANGED <<entry, source, fmt, shape1, shape2, hasTarget, ncommon,
                   outfile, effects>>
    /\ UNCHANGED valueVars

\* profile, line 467: _calculate_overview_stats divides numpy integers, which
\* yields nan or inf on a frame without rows and raises nothing.
ProfileOverview ==
    /\ entry = "profile" /\ pc = "overview"
    /\ computed' = computed \cup {"overview"}
    /\ pc' = "variables"
    /\ UNCHANGED <<entry, err, source, fmt, shape1, shape2, hasTarget, ncommon,
                   outfile, effects>>
    /\ UNCHANGED valueVars

\* profile, lines 469-477: _analyze_variable for every column but the target.
ProfileVariables ==
    /\ entry = "profile" /\ pc = "variables"
    /\ computed' = computed \cup
                     (IF NProfiled(shape1, hasTarget) > 0 THEN {"variables"} ELSE {})
    /\ IF AnalyzeRaises(shape1, NProfiled(shape1, hasTarget))
       THEN Raise("ZeroDivisionError")
       ELSE pc' = "summary" /\ err' = err
    /\ UNCHANGED <<entry, source, fmt, shape1, shape2, hasTarget, ncommon,
                   outfile, effects>>
    /\ UNCHANGED valueVars

\* profile, lines 479-543: summary plots, duplicates and the template context.
ProfileSummary ==
    /\ entry = "profile" /\ pc = "summary"
    /\ computed' = computed \cup {"summary_plots", "duplicates"}
    /\ pc' = "write"
    /\ UNCHANGED <<entry, err, source, fmt, shape1, shape2, hasTarget, ncommon,
                   outfile, effects>>
    /\ UNCHANGED valueVars

\* profile, lines 459-461 and 545-557: the report file.
ProfileWrite ==
    /\ entry = "profile" /\ pc = "write"
    /\ effects' = effects \cup {"file"}
    /\ pc' = "returned"
    /\ UNCHANGED <<entry, err, source, fmt, shape1, shape2, hasTarget, ncommon,
                   outfile, computed>>
    /\ UNCHANGED valueVars

\* compare, lines 593-608: the column sets and the dtype differences.
\* No size limit is tested anywhere in compare.
CompareSchema ==
    /\ entry = "compare" /\ pc = "start"
    /\ computed' = computed \cup {"schema"}
    /\ pc' = "columns"
    /\ UNCHANGED <<entry, err, source, fmt, shape1, shape2, hasTarget, ncommon,
                   outfile, effects>>
    /\ UNCHANGED valueVars

\* compare, lines 610-722: the statistics of every common column;
\* unique_count / total_count divides Python ints (lines 634-635).
CompareColumns ==
    /\ entry = "compare" /\ pc = "columns"
    /\ computed' = computed \cup (IF ncommon > 0 THEN {"column_stats"} ELSE {})
    /\ IF AnalyzeRaises(shape1, ncommon) \/ AnalyzeRaises(shape2, ncommon)
       THEN Raise("ZeroDivisionError")
       ELSE pc' = "results" /\ err' = err
    /\ UNCHANGED <<entry, source, fmt, shape1, shape2, hasTarget, ncommon,
                   outfile, effects>>
    /\ UNCHANGED valueVars

\* compare, lines 724-752: the result and, with output_file, the report file.
CompareResults ==
    /\ entry = "compare" /\ pc = "results"
    /\ effects' = effects \cup (IF outfile THEN {"file"} ELSE {})
    /\ pc' = "returned"
    /\ UNCHANGED <<entry, err, source, fmt, shape1, shape2, hasTarget, ncommon,
                   outfile, computed>>
    /\ UNCHANGED valueVars

Next ==
    \/ ProfileLoad
    \/ ProfileCheckLimits
    \/ ProfileMkdir
    \/ ProfileJson
    \/ ProfileOverview
    \/ ProfileVariables
    \/ ProfileSummary
    \/ ProfileWrite
    \/ CompareSchema
    \/ CompareColumns
    \/ CompareResults

Spec == Init /\ [][Next]_vars

-----------------------------------------------------------------------------
(* Value level: frames, cells and the values of Python and numpy *)

\* `if target`: None and "" are falsy.
TruthyName(opt) == opt # None /\ opt[1] # ""

\* `not include_sections` is the negation of this: None and [] are falsy. A
\* list of names is read only through `in` and its truth value, and is
\* modelled by the set of the names it lists.
TruthyList(opt) == opt # None /\ opt[1] # {}

\* A cell is missing (NaN / None) or holds a small natural; in an object
\* column the natural stands for a label.
NA == <<>>

Cell(v) == <<v>>

Values == {1, 2}

DTypes == {"int64", "float64", "object"}

\* The other storage types a column is profiled with: in a bool column the
\* natural stands for a truth value, in a datetime64[ns] column for an instant,
\* in a string column for a text.
OtherDTypes == {"bool", "datetime64[ns]", "string"}

\* An int64 or bool column cannot hold a missing value: pandas stores it as
\* float64 or object.
CellsOf(dtype) ==
    IF dtype \in {"int64", "bool"} THEN {Cell(v) : v \in Values}
    ELSE {NA} \cup {Cell(v) : v \in Values}

Bodies(n) ==
    UNION {[dtype : {d}, vals : [1 .. n -> CellsOf(d)]] : d \in DTypes}

\* The frames of one schema (column names, in order) with n rows.
FramesOf(schema, n) ==
    {[i \in 1 .. Len(schema) |->
        [name |-> schema[i], dtype |-> b[i].dtype, vals |-> b[i].vals]] :
     b \in [1 .. Len(schema) -> Bodies(n)]}

\* len(df), len(df.columns), df.columns, df.size
NRows(frame) == Len(frame[1].vals)

NCols(frame) == Len(frame)

Columns(frame) == [i \in 1 .. Len(frame) |-> frame[i].name]

ColumnSet(frame) == {frame[i].name : i \in 1 .. Len(frame)}

Size(frame) == NRows(frame) * NCols(frame)

\* df[name]: the position of the column of that name
ColIndex(frame, name) == CHOOSE i \in 1 .. Len(frame) : frame[i].name = name

NpInt(n) == PyVal("numpy.int64", "int", n, 1)

NpFloat(k, num, den) == PyVal("numpy.float64", k, num, den)

NpNaN == NpFloat("nan", 0, 1)

IsNaNValue(v) == v.k = "nan"

\* An element of the index of value_counts(), as the object it is: a str for
\* a label or a text, a pandas Timestamp for an instant.
Label(dtype, c) ==
    PyVal(IF dtype = "datetime64[ns]" THEN "pandas.Timestamp" ELSE "str", "label", c[1], 1)

\* _convert_numpy_types, lines 284-295
_convert_numpy_types(v) ==
    CASE v.t = "numpy.int64" -> [v EXCEPT !.t = "int"]
      [] v.t = "numpy.float64" -> [v EXCEPT !.t = "float"]
      [] v.t = "numpy.bool_" -> [v EXCEPT !.t = "bool"]
      [] OTHER -> v

\* float(x)
ToFloat(v) == [v EXCEPT !.t = "float", !.k = IF v.k = "int" THEN "rat" ELSE v.k]

\* numpy's a / b for a numpy integer a: nan or inf on b = 0, no exception.
NpDiv(a, b) ==
    IF b = 0 THEN (IF a = 0 THEN NpNaN ELSE NpFloat("inf", 1, 1))
    ELSE NpFloat("rat", a, b)

\* Python's a / b for two ints raises ZeroDivisionError on b = 0.
PyDivRaises(b) == b = 0

PyDiv(a, b) == PyVal("float", "rat", a, b)

\* x * 100
Times100(v) == IF v.k = "rat" THEN [v EXCEPT !.num = 100 * v.num] ELSE v

Abs(n) == IF n < 0 THEN -n ELSE n

\* round(num / den) to the nearest integer, ties to even, for den > 0, num >= 0
RoundHalfEven(num, den) ==
    LET q == (2 * num) \div (2 * den)
        r == (2 * num) % (2 * den)
    IN  IF r < den THEN q
        ELSE IF r > den THEN q + 1
        ELSE IF q % 2 = 0 THEN q ELSE q + 1

\* round(100 * sqrt(num / den)): the h with (2h-1)^2 <= 40000 num/den < (2h+1)^2
RootHundredths(num, den) ==
    CHOOSE h \in 0 .. 100 * (num \div den + 1) :
        /\ (h = 0 \/ (2 * h - 1) * (2 * h - 1) * den <= 40000 * num)
        /\ 40000 * num < (2 * h + 1) * (2 * h + 1) * den

\* f"{x:.2f}": a str whatever x is; nan prints as "nan", inf as "inf".
Fmt2(v) ==
    CASE v.k = "nan" -> PyVal("str", "nan", 0, 1)
      [] v.k = "inf" -> PyVal("str", "inf", 0, 1)
      [] v.k = "sqrt" ->
            PyVal("str", "fixed2",
                  (IF v.num < 0 THEN -1 ELSE 1) * RootHundredths(Abs(v.num), v.den), 100)
      [] OTHER ->
            PyVal("str", "fixed2",
                  (IF v.num < 0 THEN -1 ELSE 1) * RoundHalfEven(100 * Abs(v.num), v.den), 100)

-----------------------------------------------------------------------------
(* Series statistics: what pandas computes for one column *)

RECURSIVE SumSeq(_)
SumSeq(s) == IF s = <<>> THEN 0 ELSE Head(s) + SumSeq(Tail(s))

RECURSIVE Insert(_, _)
Insert(x, s) ==
    IF s = <<>> THEN <<x>>
    ELSE IF x <= Head(s) THEN <<x>> \o s
    ELSE <<Head(s)>> \o Insert(x, Tail(s))

RECURSIVE Sorted(_)
Sorted(s) == IF s = <<>> THEN <<>> ELSE Insert(Head(s), Sorted(Tail(s)))

\* series.dropna(), as the numbers held
DropNA(vals) ==
    LET kept == SelectSeq(vals, LAMBDA c : c # NA)
    IN  [i \in 1 .. Len(kept) |-> kept[i][1]]

\* series.isna().sum()
MissingCount(vals) == Len(vals) - Len(DropNA(vals))

\* Mutant of NUnique: a missing value counts as one more value
\* (nunique(dropna=False)).
NUniqueWithNA(vals) == Cardinality({vals[i] : i \in 1 .. Len(vals)})

\* series.nunique(): the distinct values, missing ones not counted
NUnique(vals) == Cardinality({vals[i] : i \in 1 .. Len(vals)} \ {NA})

Squares(xs) == [i \in 1 .. Len(xs) |-> xs[i] * xs[i]]

Products(xs, ys) == [i \in 1 .. Len(xs) |-> xs[i] * ys[i]]

\* n * sum(x y) - sum(x) sum(y): n^2 times the covariance of the pairs
Cross(xs, ys) == Len(xs) * SumSeq(Products(xs, ys)) - SumSeq(xs) * SumSeq(ys)

\* describe()['mean']: nan for a series without values
Mean(xs) ==
    IF Len(xs) = 0 THEN NpNaN ELSE NpFloat("rat", SumSeq(xs), Len(xs))

\* describe()['std']: the sample deviation (ddof = 1), nan below two values
Std(xs) ==
    IF Len(xs) <= 1 THEN NpNaN
    ELSE NpFloat("sqrt", Cross(xs, xs), Len(xs) * (Len(xs) - 1))

\* describe()['min'], ['max']
MinOf(xs) == IF Len(xs) = 0 THEN NpNaN ELSE NpFloat("rat", Sorted(xs)[1], 1)

MaxOf(xs) == IF Len(xs) = 0 THEN NpNaN ELSE NpFloat("rat", Sorted(xs)[Len(xs)], 1)

\* describe()['25%'], ['50%'], ['75%']: the quantile k/4, interpolated
\* linearly between the two order statistics around position k (n - 1) / 4.
Quartile(xs, k) ==
    IF Len(xs) = 0 THEN NpNaN
    ELSE LET s == Sorted(xs)
             lo == (k * (Len(xs) - 1)) \div 4
             rem == (k * (Len(xs) - 1)) % 4
             hi == IF rem = 0 THEN lo ELSE lo + 1
         IN  NpFloat("rat", (4 - rem) * s[lo + 1] + rem * s[hi + 1], 4)

\* series.value_counts(): the distinct values by falling count, ties in the
\* order of first appearance; index[0] is the mode.
CountOf(vals, c) == Cardinality({i \in 1 .. Len(vals) : vals[i] = c})

FirstAt(vals, c) == CHOOSE i \in 1 .. Len(vals) :
                        vals[i] = c /\ \A j \in 1 .. (i - 1) : vals[j] # c

Mode(dtype, vals) ==
    LET present == {vals[i] : i \in 1 .. Len(vals)} \ {NA}
    IN  IF present = {} THEN PyNone
        ELSE Label(dtype, CHOOSE c \in present : \A o \in present :
                      \/ CountOf(vals, c) > CountOf(vals, o)
                      \/ /\ CountOf(vals, c) = CountOf(vals, o)
                         /\ FirstAt(vals, c) <= FirstAt(vals, o))

\* The rows on which both columns hold a value: the pairs Pearson's r is over.
PairsLeft(xv, yv) ==
    LET keep == SelectSeq([i \in 1 .. Len(xv) |-> <<xv[i], yv[i]>>],
                          LAMBDA p : p[1] # NA /\ p[2] # NA)
    IN  [i \in 1 .. Len(keep) |-> keep[i][1][1]]

PairsRight(xv, yv) ==
    LET keep == SelectSeq([i \in 1 .. Len(xv) |-> <<xv[i], yv[i]>>],
                          LAMBDA p : p[1] # NA /\ p[2] # NA)
    IN  [i \in 1 .. Len(keep) |-> keep[i][2][1]]

\* Pearson's r of two columns over their complete pairs: nan when a column
\* is constant there or fewer than two pairs are left.
Corr(xv, yv) ==
    LET xs == PairsLeft(xv, yv)
        ys == PairsRight(xv, yv)
        sxy == Cross(xs, ys)
        sxx == Cross(xs, xs)
        syy == Cross(ys, ys)
    IN  IF Len(xs) < 2 \/ sxx = 0 \/ syy = 0 THEN NpNaN
        ELSE NpFloat("sqrt", (IF sxy < 0 THEN -1 ELSE 1) * sxy * sxy, sxx * syy)

\* abs(x)
AbsVal(v) == [v EXCEPT !.num = Abs(v.num)]

\* pd.api.types.is_numeric_dtype(series): bool counts as numeric.
is_numeric_dtype(dtype) == dtype \in {"int64", "float64", "bool"}

\* df.select_dtypes(include=['int64', 'float64']).columns, in column order
NumericCols(frame) ==
    SelectSeq(Columns(frame),
              LAMBDA c : frame[ColIndex(frame, c)].dtype \in {"int64", "float64"})

\* Row i of the frame, and df.duplicated().sum(): the rows equal to an earlier
\* one on every column (missing cells equal one another).
Row(frame, i) == [c \in 1 .. Len(frame) |-> frame[c].vals[i]]

DuplicatedSum(frame) ==
    Cardinality({i \in 1 .. NRows(frame) :
                    \E j \in 1 .. (i - 1) : Row(frame, j) = Row(frame, i)})

\* df.isna().sum().sum(), df.isna().any().sum()
TotalMissing(frame) ==
    SumSeq([c \in 1 .. Len(frame) |-> MissingCount(frame[c].vals)])

ColumnsWithMissing(frame) ==
    Cardinality({c \in 1 .. Len(frame) : MissingCount(frame[c].vals) > 0})

-----------------------------------------------------------------------------
(* _analyze_variable and _prepare_json_data *)

\* A key a dict does not hold, and dict.get(key)
Absent == PyVal("absent", "none", 0, 1)

Get(v) == IF v = Absent THEN PyNone ELSE v

\* _analyze_variable, line 85: distinct_count / total_count divides two
\* Python ints and raises ZeroDivisionError for a series without rows.
AnalyzeVariableRaises(frame) == PyDivRaises(NRows(frame))

\* _analyze_variable, lines 100-103: describe() of a bool series is the
\* categorical summary (count, unique, top, freq), so desc['mean'] raises
\* KeyError.
DescribeRaises(dtype) == dtype = "bool"

\* _analyze_variable, lines 75-163, without the plots.
_analyze_variable(frame, i) ==
    LET series == frame[i].vals
        total_count == Len(series)
        missing_count == NpInt(MissingCount(series))
        distinct_count == PyInt(NUnique(series))
        xs == DropNA(series)
    IN  [name |-> frame[i].name,
         type |-> frame[i].dtype,
         distinct_count |-> distinct_count,
         distinct_pct |-> Fmt2(Times100(PyDiv(distinct_count.num, total_count))),
         missing_count |-> missing_count,
         missing_pct |-> Fmt2(Times100(NpDiv(missing_count.num, total_count))),
         statistics |->
            IF is_numeric_dtype(frame[i].dtype)
            THEN [mean |-> Fmt2(Mean(xs)), std |-> Fmt2(Std(xs)),
                  min |-> Fmt2(MinOf(xs)), q1 |-> Fmt2(Quartile(xs, 1)),
                  median |-> Fmt2(Quartile(xs, 2)), q3 |-> Fmt2(Quartile(xs, 3)),
                  max |-> Fmt2(MaxOf(xs)), mode |-> Absent]
            ELSE [mean |-> PyNone, std |-> PyNone, min |-> PyNone, q1 |-> PyNone,
                  median |-> PyNone, q3 |-> PyNone, max |-> PyNone,
                  mode |-> Mode(frame[i].dtype, series)]]

\* _prepare_json_data, lines 322-338: one entry of data["variables"]
JsonVariableEntry(var_data) ==
    [name |-> var_data.name,
     type |-> var_data.type,
     distinct_count |-> _convert_numpy_types(var_data.distinct_count),
     distinct_pct |-> var_data.distinct_pct,
     missing_count |-> _convert_numpy_types(var_data.missing_count),
     missing_pct |-> var_data.missing_pct,
     statistics |-> [var_data.statistics EXCEPT !.mode = Get(@)]]

\* _prepare_json_data, lines 341, 356, 365: the test every filtered section is under
SectionRequested(name, inc, exc) ==
    /\ (~TruthyList(inc) \/ name \in inc[1])
    /\ (~TruthyList(exc) \/ name \notin exc[1])

SeqToSet(q) == {q[i] : i \in 1 .. Len(q)}

\* _prepare_json_data, lines 344-353: the Pearson matrix, nan written as None
PearsonMatrix(frame) ==
    LET names == SeqToSet(NumericCols(frame))
    IN  [p \in names \X names |->
            LET r == Corr(frame[ColIndex(frame, p[1])].vals,
                          frame[ColIndex(frame, p[2])].vals)
            IN  IF IsNaNValue(r) THEN PyNone ELSE _convert_numpy_types(r)]

\* _prepare_json_data, lines 342-343 (and _create_summary_plots, 205-206):
\* every int64/float64 column counts, the target included.
HasCorrelations(frame) == Len(NumericCols(frame)) > 1

\* _prepare_json_data, lines 357-362
MissingValuesSection(frame) ==
    [total_missing |-> _convert_numpy_types(NpInt(TotalMissing(frame))),
     missing_percentage |-> ToFloat(Times100(NpDiv(TotalMissing(frame), Size(frame)))),
     variables_with_missing |-> _convert_numpy_types(NpInt(ColumnsWithMissing(frame)))]

\* _prepare_json_data, lines 366-370
DuplicatesSection(frame) ==
    [total_duplicates |-> _convert_numpy_types(NpInt(DuplicatedSum(frame))),
     duplicate_percentage |-> ToFloat(Times100(NpDiv(DuplicatedSum(frame), NRows(frame))))]

\* _prepare_json_data, lines 379-382: |r| with the target for every other
\* numeric column, 0.0 where r is nan.
CorrelationImportance(frame, tname) ==
    LET tv == frame[ColIndex(frame, tname)].vals
        feats == {c \in ColumnSet(frame) :
                    c # tname /\ is_numeric_dtype(frame[ColIndex(frame, c)].dtype)}
    IN  [c \in feats |->
            LET corr == Corr(frame[ColIndex(frame, c)].vals, tv)
            IN  IF IsNaNValue(corr) THEN PyVal("float", "rat", 0, 1)
                ELSE _convert_numpy_types(AbsVal(ToFloat(corr)))]

\* sklearn's mutual_info_classif refuses missing values in X or y (ValueError).
MutualInfoRaises(frame, tname) ==
    \/ \E i \in 1 .. Len(frame) :
          frame[i].dtype \in {"int64", "float64"} /\ MissingCount(frame[i].vals) > 0
    \/ MissingCount(frame[ColIndex(frame, tname)].vals) > 0

\* The noise mutual_info_classif may draw: it is called without random_state
\* and adds noise from numpy's global generator to every feature.
Draws == {1, 2}

HasRepeats(vals) == NUnique(vals) < Len(DropNA(vals))

\* One score of mutual_info_classif: the noise decides which of a feature's
\* equal values are the nearer neighbours, so the score of a feature with
\* repeated values depends on the draw.
mutual_info_classif(xv, draw) ==
    NpFloat("mi", IF HasRepeats(xv) THEN draw ELSE 0, 1)

\* _prepare_json_data, lines 385-390
MutualInfoImportance(frame, draw) ==
    [c \in SeqToSet(NumericCols(frame)) |->
        _convert_numpy_types(ToFloat(mutual_info_classif(frame[ColIndex(frame, c)].vals, draw)))]

-----------------------------------------------------------------------------
(* Value level: profile(df, target, output_format='json', ...) step by step *)

\* Column names, in the order the frame holds them (not the sorted order).
Schemas == {<<"b">>, <<"b", "">>}

Frames == UNION {FramesOf(s, n) : s \in Schemas, n \in 0 .. MaxRows}

\* One-row frames without a missing cell: what the section filters are run on.
\* One column of another storage type.
OtherFrames ==
    UNION {{<<[name |-> "b", dtype |-> d, vals |-> v]>> :
                v \in UNION {[1 .. n -> CellsOf(d)] : n \in 0 .. MaxRows}} :
           d \in OtherDTypes}

PlainFrames ==
    {f \in UNION {FramesOf(s, 1) : s \in Schemas} :
        \A i \in 1 .. Len(f) : f[i].vals = <<Cell(1)>>}

Targets == {None, Some(""), Some("b"), Some("zz")}

SectionNames == {"correlations", "missing_values", "duplicates", "target_analysis"}

Filters ==
    {None} \cup {Some(S) : S \in {T \in SUBSET SectionNames : Cardinality(T) <= MaxFilter}}

ShapeIdle ==
    /\ source = "frame"
    /\ shape1 = NoShape
    /\ shape2 = NoShape
    /\ hasTarget = FALSE
    /\ ncommon = 0
    /\ outfile = FALSE
    /\ computed = {}
    /\ effects = {}

InitProfileFrame ==
    /\ entry = "profile"
    /\ pc = "start"
    /\ err = "none"
    /\ ShapeIdle
    /\ target \in Targets
    /\ \/ /\ fmt \in {"json", "html"}
          /\ df \in Frames /\ include_sections = None /\ exclude_sections = None
       \/ /\ fmt = "json"
          /\ df \in PlainFrames /\ include_sections \in Filters /\ exclude_sections \in Filters
       \/ /\ fmt \in {"json", "html"} /\ target = None
          /\ df \in OtherFrames /\ include_sections = None /\ exclude_sections = None
    /\ context = NoContext
    /\ CompareIdle
    /\ col = 0
    /\ data = NoData
    /\ call = 1
    /\ prev = NoData
    /\ clock = 0

\* profile, lines 446-457: the size limits, then the branch on output_format
CheckLimits ==
    /\ pc = "start"
    /\ IF ExceedsLimits([rows |-> NRows(df), cols |-> NCols(df)])
       THEN Raise("DataSizeError")
       ELSE pc' = (IF fmt = "json" THEN "json" ELSE "overview") /\ err' = err
    /\ UNCHANGED <<entry, fmt, shapeOnly, valueVars>>

\* _prepare_json_data, lines 297-315
PrepareJsonData ==
    /\ pc = "json"
    /\ data' = [NoData EXCEPT !.generated_at = clock,
                              !.rows = _convert_numpy_types(PyInt(NRows(df))),
                              !.columns = _convert_numpy_types(PyInt(NCols(df))),
                              !.n_vars = _convert_numpy_types(PyInt(NCols(df))),
                              !.n_obs = _convert_numpy_types(PyInt(NRows(df)))]
    /\ col' = 1
    /\ pc' = "json_variables"
    /\ UNCHANGED <<entry, err, fmt, shapeOnly, valueIn, context, call, prev, clock, compareVars>>

\* lines 319 and 472: `if target and column == target`
IsTarget(name, tgt) == TruthyName(tgt) /\ name = tgt[1]

\* _prepare_json_data, lines 318-338: one turn of the loop over df.columns
JsonVariable ==
    /\ pc = "json_variables"
    /\ IF IsTarget(df[col].name, target)
       THEN /\ data' = data
            /\ col' = col + 1
            /\ pc' = IF col = NCols(df) THEN "json_correlations" ELSE pc
            /\ err' = err
       ELSE IF AnalyzeVariableRaises(df)
       THEN Raise("ZeroDivisionError") /\ UNCHANGED <<data, col>>
       ELSE IF DescribeRaises(df[col].dtype)
       THEN Raise("KeyError") /\ UNCHANGED <<data, col>>
       ELSE /\ data' = [data EXCEPT !.variables =
                            Append(@, JsonVariableEntry(_analyze_variable(df, col)))]
            /\ col' = col + 1
            /\ pc' = IF col = NCols(df) THEN "json_correlations" ELSE pc
            /\ err' = err
    /\ UNCHANGED <<entry, fmt, shapeOnly, valueIn, context, call, prev, clock, compareVars>>

\* _prepare_json_data, lines 340-353
JsonCorrelations ==
    /\ pc = "json_correlations"
    /\ data' = IF /\ SectionRequested("correlations", include_sections, exclude_sections)
                  /\ HasCorrelations(df)
               THEN [data EXCEPT !.correlations = Some([pearson |-> PearsonMatrix(df)])]
               ELSE data
    /\ pc' = "json_missing"
    /\ UNCHANGED <<entry, err, fmt, shapeOnly, valueIn, context, col, call, prev, clock, compareVars>>

\* _prepare_json_data, lines 355-362
JsonMissingValues ==
    /\ pc = "json_missing"
    /\ data' = IF SectionRequested("missing_values", include_sections, exclude_sections)
               THEN [data EXCEPT !.missing_values = Some(MissingValuesSection(df))]
               ELSE data
    /\ pc' = "json_duplicates"
    /\ UNCHANGED <<entry, err, fmt, shapeOnly, valueIn, context, col, call, prev, clock, compareVars>>

\* _prepare_json_data, lines 364-370
JsonDuplicates ==
    /\ pc = "json_duplicates"
    /\ data' = IF SectionRequested("duplicates", include_sections, exclude_sections)
               THEN [data EXCEPT !.duplicates = Some(DuplicatesSection(df))]
               ELSE data
    /\ pc' = "json_target"
    /\ UNCHANGED <<entry, err, fmt, shapeOnly, valueIn, context, col, call, prev, clock, compareVars>>

TargetAnalysis(frame, tname, importance) ==
    Some([target_name |-> tname,
          target_type |-> frame[ColIndex(frame, tname)].dtype,
          feature_importance |-> importance])

\* _prepare_json_data, lines 372-398.
\* No filter is read here: the section is added whenever the target is a column.
JsonTargetAnalysis ==
    /\ pc = "json_target"
    /\ IF ~(TruthyName(target) /\ target[1] \in ColumnSet(df))
       THEN data' = data /\ pc' = "json_dump" /\ err' = err
       ELSE IF is_numeric_dtype(df[ColIndex(df, target[1])].dtype)
       THEN /\ data' = [data EXCEPT !.target_analysis =
                          TargetAnalysis(df, target[1], CorrelationImportance(df, target[1]))]
            /\ pc' = "json_dump" /\ err' = err
       ELSE IF Len(NumericCols(df)) = 0
       THEN /\ data' = [data EXCEPT !.target_analysis =
                          TargetAnalysis(df, target[1], <<>>)]
            /\ pc' = "json_dump" /\ err' = err
       ELSE IF MutualInfoRaises(df, target[1])
       THEN Raise("ValueError") /\ data' = data
       ELSE \E draw \in Draws :
            /\ data' = [data EXCEPT !.target_analysis =
                          TargetAnalysis(df, target[1], MutualInfoImportance(df, draw))]
            /\ pc' = "json_dump" /\ err' = err
    /\ UNCHANGED <<entry, fmt, shapeOnly, valueIn, context, col, call, prev, clock, compareVars>>

\* Every scalar of the report model: what json.dump walks over.
JsonScalars(d) ==
    {d.rows, d.columns, d.n_vars, d.n_obs}
    \cup UNION {{d.variables[i].distinct_count, d.variables[i].distinct_pct,
                 d.variables[i].missing_count, d.variables[i].missing_pct}
                \cup {d.variables[i].statistics[f] : f \in DOMAIN d.variables[i].statistics} :
                i \in 1 .. Len(d.variables)}
    \cup (IF d.correlations = None THEN {}
          ELSE {d.correlations[1].pearson[p] : p \in DOMAIN d.correlations[1].pearson})
    \cup (IF d.missing_values = None THEN {}
          ELSE {d.missing_values[1][f] : f \in DOMAIN d.missing_values[1]})
    \cup (IF d.duplicates = None THEN {}
          ELSE {d.duplicates[1][f] : f \in DOMAIN d.duplicates[1]})
    \cup (IF d.target_analysis = None THEN {}
          ELSE {d.target_analysis[1].feature_importance[c] :
                    c \in DOMAIN d.target_analysis[1].feature_importance})

\* profile, lines 459-461: json.dump writes the model and the path is
\* returned. The encoder knows int, float (numpy.float64 is a float), bool,
\* str and None, and raises TypeError on a value of any other type.
JsonDump ==
    /\ pc = "json_dump"
    /\ IF \E v \in JsonScalars(data) :
             v.t \notin {"int", "float", "numpy.float64", "bool", "str", "NoneType"}
       THEN Raise("TypeError")
       ELSE pc' = "returned" /\ err' = err
    /\ UNCHANGED <<entry, fmt, shapeOnly, valueIn, data, context, col, call, prev,
                   clock, compareVars>>

\* The caller repeats the call on the same frame with the same arguments;
\* the clock has moved on.
CallAgain ==
    /\ pc = "returned" /\ call = 1 /\ fmt = "json"
    /\ prev' = data
    /\ data' = NoData
    /\ col' = 0
    /\ call' = 2
    /\ clock' = clock + 1
    /\ pc' = "start"
    /\ UNCHANGED <<entry, err, fmt, shapeOnly, valueIn, context, compareVars>>

\* (x).round(2) on a numpy float
Round2(v) ==
    IF v.k = "rat"
    THEN [v EXCEPT !.num = (IF v.num < 0 THEN -1 ELSE 1) * RoundHalfEven(100 * Abs(v.num), v.den),
                   !.den = 100]
    ELSE v

\* _calculate_overview_stats, lines 38-53: every quotient has a numpy integer
\* on top, so a frame without rows gives nan and no exception.
_calculate_overview_stats(frame) ==
    [rows |-> PyInt(NRows(frame)),
     columns |-> PyInt(NCols(frame)),
     duplicate_rows |-> NpInt(DuplicatedSum(frame)),
     duplicate_rows_pct |-> Fmt2(Times100(NpDiv(DuplicatedSum(frame), NRows(frame)))),
     missing_cells |-> NpInt(TotalMissing(frame)),
     missing_cells_pct |-> Fmt2(Times100(NpDiv(TotalMissing(frame), Size(frame))))]

\* profile, lines 466-467
CalculateOverview ==
    /\ pc = "overview"
    /\ context' = [context EXCEPT !.overview = Some(_calculate_overview_stats(df))]
    /\ col' = 1
    /\ pc' = "variables"
    /\ UNCHANGED <<entry, err, fmt, shapeOnly, valueIn, data, call, prev, clock, compareVars>>

\* profile, lines 469-477: one turn of the loop over df.columns
ProfileVariable ==
    /\ pc = "variables"
    /\ IF IsTarget(df[col].name, target)
       THEN /\ context' = context
            /\ col' = col + 1
            /\ pc' = IF col = NCols(df) THEN "summary_plots" ELSE pc
            /\ err' = err
       ELSE IF AnalyzeVariableRaises(df)
       THEN Raise("ZeroDivisionError") /\ UNCHANGED <<context, col>>
       ELSE IF DescribeRaises(df[col].dtype)
       THEN Raise("KeyError") /\ UNCHANGED <<context, col>>
       ELSE /\ context' = [context EXCEPT !.variables = Append(@, _analyze_variable(df, col))]
            /\ col' = col + 1
            /\ pc' = IF col = NCols(df) THEN "summary_plots" ELSE pc
            /\ err' = err
    /\ UNCHANGED <<entry, fmt, shapeOnly, valueIn, data, call, prev, clock, compareVars>>

\* _create_summary_plots, lines 204-243: which plots are drawn
CreateSummaryPlots ==
    /\ pc = "summary_plots"
    /\ context' = [context EXCEPT
                     !.correlations_plot = HasCorrelations(df),
                     !.target_plot = TruthyName(target) /\ target[1] \in ColumnSet(df)]
    /\ pc' = "duplicates"
    /\ UNCHANGED <<entry, err, fmt, shapeOnly, valueIn, col, data, call, prev, clock, compareVars>>

\* df.groupby(list(df.columns)).size(): the count of every distinct row;
\* groupby drops the rows that hold a missing value in a key column.
GroupKeys(frame) ==
    {Row(frame, i) : i \in {j \in 1 .. NRows(frame) :
                              \A c \in 1 .. Len(frame) : frame[c].vals[j] # NA}}

GroupSize(frame, key) ==
    Cardinality({i \in 1 .. NRows(frame) : Row(frame, i) = key})

\* The counts above 1, largest first (sort_values(ascending=False))
RECURSIVE CountsDescending(_, _)
CountsDescending(frame, keys) ==
    IF keys = {} THEN <<>>
    ELSE LET top == CHOOSE k \in keys :
                        \A o \in keys : GroupSize(frame, k) >= GroupSize(frame, o)
         IN  <<GroupSize(frame, top)>> \o CountsDescending(frame, keys \ {top})

\* df[df.duplicated(keep=False)].index[:5]: the first five rows that have a twin
TwinRows(frame) ==
    LET twins == SelectSeq([i \in 1 .. NRows(frame) |-> i],
                           LAMBDA i : \E j \in 1 .. NRows(frame) :
                                         j # i /\ Row(frame, j) = Row(frame, i))
    IN  SubSeq(twins, 1, Min(5, Len(twins)))

\* _analyze_duplicates, lines 251-262
_analyze_duplicates(frame) ==
    IF DuplicatedSum(frame) = 0 THEN <<>>
    ELSE LET dup_counts == CountsDescending(frame,
                              {k \in GroupKeys(frame) : GroupSize(frame, k) > 1})
         IN  [g \in 1 .. Min(10, Len(dup_counts)) |->
                 [count |-> NpInt(dup_counts[g]), rows |-> TwinRows(frame)]]

\* profile, lines 482-483
AnalyzeDuplicates ==
    /\ pc = "duplicates"
    /\ context' = [context EXCEPT !.duplicate_samples = _analyze_duplicates(df)]
    /\ pc' = "context"
    /\ UNCHANGED <<entry, err, fmt, shapeOnly, valueIn, col, data, call, prev, clock, compareVars>>

\* len(df.select_dtypes(include=kinds).columns); 'datetime64' selects the
\* datetime64[ns] columns.
CountDTypes(frame, kinds) ==
    Cardinality({c \in 1 .. Len(frame) :
        \/ frame[c].dtype \in kinds
        \/ frame[c].dtype = "datetime64[ns]" /\ "datetime64" \in kinds})

\* profile, lines 517-557: the flattened statistics of the context, then the
\* report is rendered and written.
BuildContext ==
    /\ pc = "context"
    /\ context' = [context EXCEPT !.counts = Some(
          [n_vars |-> PyInt(NCols(df)),
           n_obs |-> PyInt(NRows(df)),
           n_missing |-> NpInt(TotalMissing(df)),
           missing_percent |-> Round2(Times100(NpDiv(TotalMissing(df), NRows(df) * NCols(df)))),
           n_duplicates |-> NpInt(DuplicatedSum(df)),
           duplicates_percent |-> Round2(Times100(NpDiv(DuplicatedSum(df), NRows(df)))),
           n_numeric |-> PyInt(CountDTypes(df, {"int64", "float64"})),
           n_categorical |-> PyInt(CountDTypes(df, {"object", "category"})),
           n_boolean |-> PyInt(CountDTypes(df, {"bool"})),
           n_date |-> PyInt(CountDTypes(df, {"datetime64"})),
           n_text |-> PyInt(CountDTypes(df, {"string"}))])]
    /\ pc' = "returned"
    /\ UNCHANGED <<entry, err, fmt, shapeOnly, valueIn, col, data, call, prev, clock, compareVars>>

NextProfile ==
    \/ CheckLimits
    \/ PrepareJsonData
    \/ JsonVariable
    \/ JsonCorrelations
    \/ JsonMissingValues
    \/ JsonDuplicates
    \/ JsonTargetAnalysis
    \/ JsonDump
    \/ CallAgain
    \/ CalculateOverview
    \/ ProfileVariable
    \/ CreateSummaryPlots
    \/ AnalyzeDuplicates
    \/ BuildContext

SpecProfile == InitProfileFrame /\ [][NextProfile]_vars

-----------------------------------------------------------------------------
(* Value level: compare(df1, df2, n_bins=...) step by step *)

\* The column names of the model, in the order Python's str comparison puts
\* them in; sorted() is a sort by it.
NameOrder == <<"", "b", "flag", "id", "region", "score", "zz">>

Rank(name) == CHOOSE i \in 1 .. Len(NameOrder) : NameOrder[i] = name

\* sorted(list(names)) for a set of column names
RECURSIVE sorted(_)
sorted(names) ==
    IF names = {} THEN <<>>
    ELSE LET first == CHOOSE n \in names : \A o \in names : Rank(n) <= Rank(o)
         IN  <<first>> \o sorted(names \ {first})

\* Mutant of OnlyInFirst: the common columns are not taken out.
OnlyInFirstKeepsCommon(cols1, cols2) == sorted(cols1)

\* compare, lines 598-599: sorted(list(cols1 - cols2))
OnlyInFirst(cols1, cols2) == sorted(cols1 \ cols2)

\* compare, line 600: sorted(list(cols1 & cols2))
Common(cols1, cols2) == sorted(cols1 \cap cols2)

\* compare, lines 603-608: the common columns whose dtype strings differ
DTypeDifferences(f1, f2, common) ==
    LET differ == SelectSeq(common, LAMBDA c :
                     f1[ColIndex(f1, c)].dtype # f2[ColIndex(f2, c)].dtype)
    IN  [i \in 1 .. Len(differ) |->
            [name |-> differ[i],
             dtype1 |-> f1[ColIndex(f1, differ[i])].dtype,
             dtype2 |-> f2[ColIndex(f2, differ[i])].dtype]]

\* compare, lines 634-635: unique_count / total_count divides two Python ints
\* (missing_count / total_count, lines 629-630, divides a numpy integer).
CompareStatsRaise(s1, s2) == PyDivRaises(Len(s1)) \/ PyDivRaises(Len(s2))

\* compare, lines 618-637: the statistics of one side, whatever its type
SideStats(series) ==
    [count |-> PyInt(Len(series)),
     missing_count |-> NpInt(MissingCount(series)),
     missing_percent |-> Fmt2(Times100(NpDiv(MissingCount(series), Len(series)))),
     unique_count |-> PyInt(NUnique(series)),
     unique_percent |-> Fmt2(Times100(PyDiv(NUnique(series), Len(series))))]

\* compare, lines 642-653: describe() of one side, printed
SideDescribe(series) ==
    LET xs == DropNA(series)
    IN  [mean |-> Fmt2(Mean(xs)), std |-> Fmt2(Std(xs)), min |-> Fmt2(MinOf(xs)),
         q1 |-> Fmt2(Quartile(xs, 1)), median |-> Fmt2(Quartile(xs, 2)),
         q3 |-> Fmt2(Quartile(xs, 3)), max |-> Fmt2(MaxOf(xs))]

NoDescribe ==
    [mean |-> PyNone, std |-> PyNone, min |-> PyNone, q1 |-> PyNone,
     median |-> PyNone, q3 |-> PyNone, max |-> PyNone]

\* compare, line 640: both dtype strings are 'int64' or 'float64'
BothNumeric(c1, c2) ==
    c1.dtype \in {"int64", "float64"} /\ c2.dtype \in {"int64", "float64"}

\* compare, lines 665-671: the density estimate of a side needs two values
\* that differ: scipy's gaussian_kde refuses fewer than two points, and the
\* covariance of equal points cannot be inverted. (A side without any value
\* makes series.min() nan; its density estimate fails all the same.)
KdeRaises(series) == Len(DropNA(series)) < 2 \/ NUnique(series) < 2

KdeError(series) ==
    IF Len(DropNA(series)) < 2 THEN "ValueError" ELSE "LinAlgError"

\* compare, lines 657-659: np.linspace(min_val, max_val, n_bins + 1), the
\* edges as fractions over n_bins
SharedBins(s1, s2, n) ==
    LET lo == Min(Sorted(DropNA(s1))[1], Sorted(DropNA(s2))[1])
        top1 == Sorted(DropNA(s1))[Len(DropNA(s1))]
        top2 == Sorted(DropNA(s2))[Len(DropNA(s2))]
        hi == IF top2 > top1 THEN top2 ELSE top1
    IN  [i \in 1 .. (n + 1) |-> NpFloat("rat", n * lo + (i - 1) * (hi - lo), n)]

\* Mutant of Histogram: the last bin is half-open like the others.
HistogramHalfOpen(series, bins) ==
    LET xs == DropNA(series)
        In(x, i) ==
            /\ bins[i].num <= x * bins[i].den
            /\ x * bins[i + 1].den < bins[i + 1].num
    IN  [i \in 1 .. (Len(bins) - 1) |-> Cardinality({j \in 1 .. Len(xs) : In(xs[j], i)})]

\* np.histogram(values, bins=bins): bin i holds the values in [edge i,
\* edge i+1), the last bin its right edge too; values outside are not counted.
Histogram(series, bins) ==
    LET xs == DropNA(series)
        n == Len(bins) - 1
        In(x, i) ==
            /\ bins[i].num <= x * bins[i].den
            /\ \/ x * bins[i + 1].den < bins[i + 1].num
               \/ i = n /\ x * bins[i + 1].den = bins[i + 1].num
    IN  [i \in 1 .. n |-> Cardinality({j \in 1 .. Len(xs) : In(xs[j], i)})]

\* series.value_counts(): (value, count) by falling count, ties in the order
\* of first appearance
RECURSIVE ValueCountsOf(_, _)
ValueCountsOf(vals, present) ==
    IF present = {} THEN <<>>
    ELSE LET top == CHOOSE c \in present : \A o \in present :
                       \/ CountOf(vals, c) > CountOf(vals, o)
                       \/ /\ CountOf(vals, c) = CountOf(vals, o)
                          /\ FirstAt(vals, c) <= FirstAt(vals, o)
         IN  <<[value |-> top[1], count |-> CountOf(vals, top)]>>
                 \o ValueCountsOf(vals, present \ {top})

value_counts(vals) == ValueCountsOf(vals, {vals[i] : i \in 1 .. Len(vals)} \ {NA})

\* compare, lines 691-699: the five most frequent values of one side
TopValues(series) ==
    LET vc == value_counts(series)
    IN  [i \in 1 .. Min(5, Len(vc)) |->
            [value |-> vc[i].value,
             count |-> NpInt(vc[i].count),
             percentage |-> Fmt2(Times100(NpDiv(vc[i].count, Len(series))))]]

\* compare, lines 613-713: the entry of one common column
ColumnComparison(c1, c2, n) ==
    [name |-> c1.name,
     df1 |-> SideStats(c1.vals),
     df2 |-> SideStats(c2.vals),
     describe1 |-> IF BothNumeric(c1, c2) THEN SideDescribe(c1.vals) ELSE NoDescribe,
     describe2 |-> IF BothNumeric(c1, c2) THEN SideDescribe(c2.vals) ELSE NoDescribe,
     top_values_df1 |-> IF BothNumeric(c1, c2) THEN <<>> ELSE TopValues(c1.vals),
     top_values_df2 |-> IF BothNumeric(c1, c2) THEN <<>> ELSE TopValues(c2.vals),
     type |-> IF BothNumeric(c1, c2) THEN "numeric" ELSE "categorical",
     bins |-> IF BothNumeric(c1, c2) THEN SharedBins(c1.vals, c2.vals, n) ELSE <<>>,
     df1_counts |-> IF BothNumeric(c1, c2)
                    THEN Histogram(c1.vals, SharedBins(c1.vals, c2.vals, n)) ELSE <<>>,
     df2_counts |-> IF BothNumeric(c1, c2)
                    THEN Histogram(c2.vals, SharedBins(c1.vals, c2.vals, n)) ELSE <<>>,
     value_counts1 |-> IF BothNumeric(c1, c2) THEN <<>> ELSE value_counts(c1.vals),
     value_counts2 |-> IF BothNumeric(c1, c2) THEN <<>> ELSE value_counts(c2.vals)]

ComparePool == {"flag", "id", "region", "score"}

\* Every order of every set of at most MaxCols names of the pool
CompareSchemas ==
    {q \in UNION {[1 .. k -> ComparePool] : k \in 1 .. MaxCols} :
        \A i, j \in 1 .. Len(q) : i # j => q[i] # q[j]}

\* Two rows of two different numbers in every column
TwoValueFrame(schema) ==
    [i \in 1 .. Len(schema) |->
        [name |-> schema[i], dtype |-> "float64", vals |-> <<Cell(1), Cell(2)>>]]

SchemaFrames == {TwoValueFrame(q) : q \in CompareSchemas}

OneColumnFrames == UNION {FramesOf(<<"id">>, n) : n \in 0 .. MaxRows}

\* One numeric column of MaxRows numbers, none missing: the two sides may span
\* different ranges.
RangeFrames ==
    {<<[name |-> "score", dtype |-> d, vals |-> [i \in 1 .. MaxRows |-> Cell(v[i])]]>> :
        d \in {"int64", "float64"}, v \in [1 .. MaxRows -> 1 .. MaxValue]}

InitCompareFrames ==
    /\ entry = "compare"
    /\ pc = "start"
    /\ err = "none"
    /\ fmt = "html"
    /\ ShapeIdle
    /\ target = None /\ include_sections = None /\ exclude_sections = None
    /\ context = NoContext
    /\ data = NoData
    /\ \/ df \in SchemaFrames /\ df2 \in SchemaFrames /\ n_bins = 1
       \/ df \in OneColumnFrames /\ df2 \in OneColumnFrames /\ n_bins \in 1 .. MaxBins
       \/ df \in RangeFrames /\ df2 \in RangeFrames /\ n_bins \in 1 .. MaxBins
    /\ results = NoResults
    /\ col = 0
    /\ call = 1
    /\ prev = NoResults
    /\ clock = 0

\* Mutant of ReconcileSchemas: the second difference is taken the way of the
\* first.
ReconcileSchemasOneWay ==
    /\ pc = "start"
    /\ LET cols1 == ColumnSet(df)
           cols2 == ColumnSet(df2)
           common_columns == Common(cols1, cols2)
       IN  /\ results' = [NoResults EXCEPT
                           !.columns_only_in_df1 = OnlyInFirst(cols1, cols2),
                           !.columns_only_in_df2 = OnlyInFirst(cols1, cols2),
                           !.common_columns = common_columns,
                           !.dtype_differences = DTypeDifferences(df, df2, common_columns)]
           /\ pc' = IF common_columns = <<>> THEN "returned" ELSE "columns"
    /\ col' = 1
    /\ UNCHANGED <<entry, err, fmt, shapeOnly, valueIn, data, context, call, prev,
                   clock, df2, n_bins>>

\* compare, lines 593-611
ReconcileSchemas ==
    /\ pc = "start"
    /\ LET cols1 == ColumnSet(df)
           cols2 == ColumnSet(df2)
           common_columns == Common(cols1, cols2)
       IN  /\ results' = [NoResults EXCEPT
                           !.columns_only_in_df1 = OnlyInFirst(cols1, cols2),
                           !.columns_only_in_df2 = OnlyInFirst(cols2, cols1),
                           !.common_columns = common_columns,
                           !.dtype_differences = DTypeDifferences(df, df2, common_columns)]
           /\ pc' = IF common_columns = <<>> THEN "returned" ELSE "columns"
    /\ col' = 1
    /\ UNCHANGED <<entry, err, fmt, shapeOnly, valueIn, data, context, call, prev,
                   clock, df2, n_bins>>

\* compare, lines 613-722: one turn of the loop over common_columns; after the
\* last, lines 724-752 return the results.
CompareColumn ==
    /\ pc = "columns"
    /\ LET name == results.common_columns[col]
           c1 == df[ColIndex(df, name)]
           c2 == df2[ColIndex(df2, name)]
       IN  IF CompareStatsRaise(c1.vals, c2.vals)
           THEN Raise("ZeroDivisionError") /\ UNCHANGED <<results, col>>
           ELSE IF BothNumeric(c1, c2) /\ KdeRaises(c1.vals)
           THEN Raise(KdeError(c1.vals)) /\ UNCHANGED <<results, col>>
           ELSE IF BothNumeric(c1, c2) /\ KdeRaises(c2.vals)
           THEN Raise(KdeError(c2.vals)) /\ UNCHANGED <<results, col>>
           ELSE /\ results' = [results EXCEPT !.variable_comparison =
                                  Append(@, ColumnComparison(c1, c2, n_bins))]
                /\ col' = col + 1
                /\ pc' = IF col = Len(results.common_columns) THEN "returned" ELSE pc
                /\ err' = err
    /\ UNCHANGED <<entry, fmt, shapeOnly, valueIn, data, context, call, prev,
                   clock, df2, n_bins>>

\* The caller compares the same two frames the other way round.
CompareSwapped ==
    /\ pc = "returned" /\ call = 1
    /\ prev' = results
    /\ results' = NoResults
    /\ df' = df2
    /\ df2' = df
    /\ col' = 0
    /\ call' = 2
    /\ pc' = "start"
    /\ UNCHANGED <<entry, err, fmt, shapeOnly, target, include_sections,
                   exclude_sections, data, context, clock, n_bins>>

NextCompare ==
    \/ ReconcileSchemas
    \/ CompareColumn
    \/ CompareSwapped

SpecCompare == InitCompareFrames /\ [][NextCompare]_vars

-----------------------------------------------------------------------------
(* Claims checked under Spec *)

Ended == pc \in {"raised", "returned"}

\* C1: profile fails with DataSizeError if and only if the frame has more than
\* MAX_ROWS rows or more than MAX_COLS columns: the error is raised for no
\* other frame, and a frame over a limit never gets past the test (a frame of
\* exactly MAX_ROWS rows and at most MAX_COLS columns does).
C1_SizeGuard ==
    entry = "profile" =>
        /\ (err = "DataSizeError" =>
                shape1.rows > 1000000 \/ shape1.cols > 1000)
        /\ (shape1.rows > 1000000 \/ shape1.cols > 1000 =>
                \/ pc \in {"start", "limits"}
                \/ pc = "raised" /\ err = "DataSizeError")

\* C1 witness: a frame of exactly MAX_ROWS rows went through the whole call.
C1_BoundaryAccepted ==
    /\ entry = "profile" /\ pc = "returned" /\ err = "none"
    /\ shape1.rows = 1000000 /\ shape1.cols <= 1000

\* C2: in every entry point, nothing is computed and no directory or file is
\* written for a frame over the size limits.
C2_FailFastEverywhere ==
    (\/ shape1.rows > 1000000 \/ shape1.cols > 1000
     \/ entry = "compare" /\ (shape2.rows > 1000000 \/ shape2.cols > 1000))
    => computed = {} /\ effects = {}

-----------------------------------------------------------------------------
(* Claims checked under SpecProfile *)

JsonReturned == fmt = "json" /\ pc = "returned"

VariableNames(entries) == [i \in 1 .. Len(entries) |-> entries[i].name]

\* C3: each of the four sections is in the report model only if
\* (include_sections is unset or names it) and (exclude_sections is unset or
\* does not name it), whatever the two filters are (unset, empty or a list).
C3_SectionOnlyIfRequested ==
    JsonReturned =>
        \A section \in SectionNames :
            LET present ==
                    CASE section = "correlations" -> data.correlations # None
                      [] section = "missing_values" -> data.missing_values # None
                      [] section = "duplicates" -> data.duplicates # None
                      [] section = "target_analysis" -> data.target_analysis # None
            IN  present =>
                    /\ (include_sections = None \/ section \in include_sections[1])
                    /\ (exclude_sections = None \/ section \notin exclude_sections[1])

\* C4: on a frame without rows no division fault is raised, and every
\* percentage of the overview is the sentinel 0 or N/A.
C4_ZeroRowsDegrade ==
    (df # <<>> /\ NRows(df) = 0) =>
        /\ err # "ZeroDivisionError"
        /\ context.overview # None =>
              \A pct \in {context.overview[1].duplicate_rows_pct,
                          context.overview[1].missing_cells_pct} :
                 pct.t = "str" /\ (pct.k = "N/A" \/ (pct.k = "fixed2" /\ pct.num = 0))

\* C5: an undefined statistic is None in the report model: the standard
\* deviation of a numeric column with fewer than two values, a Pearson entry
\* and a feature importance whose correlation is undefined are never a number
\* or a string.
C5_UndefinedIsNone ==
    JsonReturned =>
        /\ \A i \in 1 .. Len(data.variables) :
              LET column == df[ColIndex(df, data.variables[i].name)]
              IN  (column.dtype \in {"int64", "float64"} /\ Len(DropNA(column.vals)) < 2)
                      => data.variables[i].statistics.std = PyNone
        /\ data.correlations # None =>
              \A p \in DOMAIN data.correlations[1].pearson :
                  IsNaNValue(Corr(df[ColIndex(df, p[1])].vals, df[ColIndex(df, p[2])].vals))
                      => data.correlations[1].pearson[p] = PyNone
        /\ (data.target_analysis # None /\ data.target_analysis[1].target_type # "object") =>
              \A c \in DOMAIN data.target_analysis[1].feature_importance :
                  IsNaNValue(Corr(df[ColIndex(df, c)].vals,
                                  df[ColIndex(df, target[1])].vals))
                      => data.target_analysis[1].feature_importance[c] = PyNone

\* The int64/float64 columns of the frame other than the designated target
NumericFeatures(frame, tgt) ==
    {i \in 1 .. Len(frame) :
        /\ frame[i].dtype \in {"int64", "float64"}
        /\ ~(tgt # None /\ frame[i].name = tgt[1])}

\* C6: the correlation matrix is in the report model if and only if the
\* filters leave the section in and the frame has at least two numeric
\* columns, the target column not counted.
C6_CorrelationsIffTwoFeatures ==
    JsonReturned =>
        (data.correlations # None <=>
            /\ SectionRequested("correlations", include_sections, exclude_sections)
            /\ Cardinality(NumericFeatures(df, target)) >= 2)

\* The columns of the frame in their order, the one named `name` left out
Without(frame, name) == SelectSeq(Columns(frame), LAMBDA c : c # name)

\* C7: for every target name, the per-column map holds exactly the columns
\* other than the target, in the frame's order, and the overview counts are
\* those of the whole frame; a name that is no column excludes nothing.
C7_TargetExcluded ==
    JsonReturned =>
        /\ VariableNames(data.variables) =
              (IF target = None THEN Columns(df) ELSE Without(df, target[1]))
        /\ data.rows = PyInt(NRows(df)) /\ data.columns = PyInt(NCols(df))

C11_PlainTypesOnly ==
    /\ err # "TypeError"
    /\ (fmt = "json" /\ pc \in {"json_dump", "returned"}) =>
          \A v \in JsonScalars(data) : v.t \in {"int", "float", "bool", "str", "NoneType"}

\* C12: in every column profile, 0 <= missing_count <= total_count,
\* missing_count plus the number of cells that hold a value is total_count,
\* and distinct_count is the number of different values held, hence at most
\* total_count - missing_count.
C12_CountsAddUp ==
    entry = "profile" =>
        \A i \in 1 .. Len(data.variables) + Len(context.variables) :
            LET e == IF i <= Len(data.variables) THEN data.variables[i]
                     ELSE context.variables[i - Len(data.variables)]
                cells == df[CHOOSE c \in 1 .. Len(df) : df[c].name = e.name].vals
                held == {r \in 1 .. Len(cells) : cells[r] # NA}
            IN  /\ 0 <= e.missing_count.num /\ e.missing_count.num <= Len(cells)
                /\ e.missing_count.num + Cardinality(held) = Len(cells)
                /\ e.distinct_count.num = Cardinality({cells[r] : r \in held})
                /\ e.distinct_count.num <= Len(cells) - e.missing_count.num

\* C12 witness: the profiles of a column that holds no value at all and of a
\* column that holds a value in every row are both in the returned model.
C12_AllMissingAndAllPresent ==
    /\ JsonReturned /\ Len(data.variables) = 2 /\ NRows(df) = 2
    /\ data.variables[1].missing_count = PyInt(2)
    /\ data.variables[1].distinct_count = PyInt(0)
    /\ data.variables[2].missing_count = PyInt(0)
    /\ data.variables[2].distinct_count = PyInt(2)

\* C13: the duplicate analyzer returns the groups of rows equal on every
\* column (missing cells included) that have more than one row, largest count
\* first, ten at most; the list is empty exactly when the overview counts no
\* duplicate row, and with at most ten groups the counts less one add up to
\* the overview's duplicate_rows.
C13_DuplicateGroups ==
    (fmt = "html" /\ pc \in {"context", "returned"}) =>
        LET samples == context.duplicate_samples
            rows == {[c \in 1 .. Len(df) |-> df[c].vals[i]] : i \in 1 .. NRows(df)}
            size(r) == Cardinality({i \in 1 .. NRows(df) :
                                       [c \in 1 .. Len(df) |-> df[c].vals[i]] = r})
            groups == {r \in rows : size(r) > 1}
            duplicate_rows == context.overview[1].duplicate_rows.num
        IN  /\ Len(samples) = Min(10, Cardinality(groups))
            /\ \A g \in 1 .. Len(samples) :
                  /\ samples[g].count.num > 1
                  /\ Cardinality({r \in groups : size(r) >= samples[g].count.num}) >= g
                  /\ g > 1 => samples[g - 1].count.num >= samples[g].count.num
            /\ (samples = <<>>) <=> (duplicate_rows = 0)
            /\ Cardinality(groups) <= 10 =>
                  SumSeq([g \in 1 .. Len(samples) |-> samples[g].count.num - 1])
                      = duplicate_rows

\* C14: no column fails on its type, a column profile holds the numeric
\* statistics exactly when the column's storage is int64 or float64 and the
\* mode otherwise (bool, datetime and text columns included), and the rollup
\* of the context counts the same columns as numeric.
C14_OneTypeDecision ==
    entry = "profile" =>
        /\ err # "KeyError"
        /\ \A i \in 1 .. Len(data.variables) + Len(context.variables) :
              LET e == IF i <= Len(data.variables) THEN data.variables[i]
                       ELSE context.variables[i - Len(data.variables)]
                  numeric == e.type \in {"int64", "float64"}
              IN  /\ (e.statistics.mean # PyNone) <=> numeric
                  /\ (e.statistics.mode \notin {Absent, PyNone}) => ~numeric
        /\ context.counts # None =>
              context.counts[1].n_numeric.num =
                  Cardinality({c \in 1 .. Len(df) : df[c].dtype \in {"int64", "float64"}})

-----------------------------------------------------------------------------
(* Claims checked under SpecCompare *)

CompareReturned == entry = "compare" /\ pc = "returned"

\* C9: comparing the same two frames the other way round swaps the two
\* only-in lists and leaves the list of common columns as it was.
C9_SwapSymmetric ==
    (CompareReturned /\ call = 2) =>
        /\ prev.columns_only_in_df1 = results.columns_only_in_df2
        /\ prev.columns_only_in_df2 = results.columns_only_in_df1
        /\ prev.common_columns = results.common_columns

\* C9 witness: both calls returned, and each of the three lists holds a name.
C9_SwappedBothWays ==
    /\ CompareReturned /\ call = 2
    /\ results.columns_only_in_df1 # <<>>
    /\ results.columns_only_in_df2 # <<>>
    /\ results.columns_only_in_df1 # results.columns_only_in_df2
    /\ results.common_columns # <<>>

Ascending(names) ==
    \A i, j \in 1 .. Len(names) : i < j => Rank(names[i]) < Rank(names[j])

\* C10: each of the three lists rises strictly in lexicographic order (so it
\* repeats no name), no name is in two of them, together they hold the names
\* of both frames, and they are the two differences and the intersection of
\* the two sets of names.
C10_SchemaReconciled ==
    (entry = "compare" /\ pc # "start") =>
        LET only1 == results.columns_only_in_df1
            only2 == results.columns_only_in_df2
            both == results.common_columns
            A == {df[i].name : i \in 1 .. Len(df)}
            B == {df2[i].name : i \in 1 .. Len(df2)}
        IN  /\ Ascending(only1) /\ Ascending(only2) /\ Ascending(both)
            /\ SeqToSet(only1) \cap SeqToSet(only2) = {}
            /\ SeqToSet(only1) \cap SeqToSet(both) = {}
            /\ SeqToSet(only2) \cap SeqToSet(both) = {}
            /\ SeqToSet(only1) \cup SeqToSet(only2) \cup SeqToSet(both) = A \cup B
            /\ SeqToSet(only1) = A \ B
            /\ SeqToSet(only2) = B \ A
            /\ SeqToSet(both) = A \cap B

\* C10 witness: the frames share id and score, the first has region and the
\* second flag, neither in sorted order; the lists are [region], [flag] and
\* [id, score].
C10_RegionFlagScenario ==
    /\ CompareReturned
    /\ Columns(df) = <<"score", "region", "id">>
    /\ Columns(df2) = <<"score", "flag", "id">>
    /\ results.columns_only_in_df1 = <<"region">>
    /\ results.columns_only_in_df2 = <<"flag">>
    /\ results.common_columns = <<"id", "score">>

\* C15: in every numeric entry of the comparison, the histogram has
\* n_bins + 1 edges that never fall and are equally spaced, from the smallest
\* to the largest value held by either side, each side has n_bins counts, and
\* each side's counts add up to the number of values that side holds.
C15_SharedHistogram ==
    entry = "compare" =>
        \A k \in 1 .. Len(results.variable_comparison) :
            LET e == results.variable_comparison[k]
                s1 == df[CHOOSE c \in 1 .. Len(df) : df[c].name = e.name].vals
                s2 == df2[CHOOSE c \in 1 .. Len(df2) : df2[c].name = e.name].vals
                held1 == {r \in 1 .. Len(s1) : s1[r] # NA}
                held2 == {r \in 1 .. Len(s2) : s2[r] # NA}
                values == {s1[r][1] : r \in held1} \cup {s2[r][1] : r \in held2}
                Less(a, b) == a.num * b.den < b.num * a.den
                Step(i) == e.bins[i + 1].num * e.bins[i].den
                              - e.bins[i].num * e.bins[i + 1].den
            IN  e.type = "numeric" =>
                  /\ Len(e.bins) = n_bins + 1
                  /\ Len(e.df1_counts) = n_bins /\ Len(e.df2_counts) = n_bins
                  /\ \A i \in 1 .. n_bins : ~Less(e.bins[i + 1], e.bins[i])
                  /\ \A i, j \in 1 .. n_bins :
                        Step(i) * e.bins[j].den * e.bins[j + 1].den
                            = Step(j) * e.bins[i].den * e.bins[i + 1].den
                  /\ \E lo, hi \in values :
                        /\ \A x \in values : lo <= x /\ x <= hi
                        /\ e.bins[1].num = lo * e.bins[1].den
                        /\ e.bins[n_bins + 1].num = hi * e.bins[n_bins + 1].den
                  /\ SumSeq(e.df1_counts) = Cardinality(held1)
                  /\ SumSeq(e.df2_counts) = Cardinality(held2)

\* C15 witness: the first side spans 1 to 2 and the second 2 to 3; with two
\* bins the edges are 1, 2, 3 and the counts are [1, 1] and [0, 2].
C15_DifferentRanges ==
    /\ CompareReturned /\ n_bins = 2 /\ Len(results.variable_comparison) = 1
    /\ df[1].vals[1] = Cell(1) /\ \A r \in 1 .. NRows(df) : df[1].vals[r] \in {Cell(1), Cell(2)}
    /\ df2[1].vals[1] = Cell(3) /\ \A r \in 1 .. NRows(df2) : df2[1].vals[r] \in {Cell(2), Cell(3)}
    /\ results.variable_comparison[1].type = "numeric"
    /\ results.variable_comparison[1].bins[1].num = results.variable_comparison[1].bins[1].den
    /\ results.variable_comparison[1].bins[3].num = 3 * results.variable_comparison[1].bins[3].den
    /\ SumSeq(results.variable_comparison[1].df2_counts) = NRows(df2)
    /\ results.variable_comparison[1].df2_counts[1] = 0

=============================================================================
